---- MODULE Spec2Model ----
(***************************************************************************)
(* Workflow execution engine of autofy: the polling monitor                *)
(* (backend/services/workflow_monitor.py), the step pipeline executor      *)
(* (backend/services/workflow_executor.py) and the execution ledger        *)
(* (backend/services/workflow_service.py) on top of the workflows,         *)
(* workflow_steps, workflow_executions and integrations tables.            *)
(*                                                                         *)
(* Everything runs on one asyncio event loop: the code between two awaits  *)
(* that really suspend (an adapter call, the Gmail poll, a sleep) is       *)
(* atomic.  The store client is synchronous, so a read-modify-write of a   *)
(* row is never interleaved with another coroutine.                        *)
(***************************************************************************)
EXTENDS Naturals, Integers, Sequences, FiniteSets, TLC

\* ---------------------------------------------------------------- bounds
MaxTasks == 3        \* polling-task objects alive at the same time
MaxRuns == 3         \* pipeline runs started in one behaviour
MaxEvents == 2       \* events one poll returns
MaxInbox == 2        \* matching emails that arrive in one behaviour
MaxInvocations == 5  \* cap of the per-step adapter invocation counter
MaxTemplateLen == 2  \* tokens of a configuration template
MaxPipelines == 2    \* execute_workflow calls followed value by value
MaxClock == 2        \* hours the clock advances in one behaviour
MaxLogCalls == 2
MaxLimit == 2
MaxZapSteps == 2     \* action steps of the zap the graph executor runs

\* ------------------------------------------------- the rows in the store
Workflows == {"w1", "w2"}
Services == {"gmail", "notion", "telegram"}
Statuses == {"draft", "active", "paused", "archived"}

\* what the configuration column of a trigger step can hold: a JSON object,
\* a string with the JSON text of an object, a string that is not JSON
TriggerConfigKinds == {"dict", "json", "text"}

\* what the configuration column of an action step can hold: a JSON object,
\* a string with the JSON text of an object, a string that is not JSON, a
\* JSON value that is not an object
ConfigurationKinds == {"dict", "json", "text", "list"}

\* _execute_gmail_workflow, line 180: timedelta(hours=24)
Lookback == 24

\* error_handling written by create_workflow_step when none is given
DefaultMaxRetries == 3

\* create_initial_workflow_state: max_retries=3
GraphMaxRetries == 3

\* The action steps of each workflow, in step_order.  w1 is the workflow of
\* the retry scenario (max_retries = 2) followed by a second action.
ActionSteps(w) ==
  IF w = "w1"
  THEN << [service |-> "notion", max_retries |-> 2],
          [service |-> "telegram", max_retries |-> DefaultMaxRetries] >>
  ELSE << [service |-> "notion", max_retries |-> DefaultMaxRetries] >>

NumActionSteps(w) == Len(ActionSteps(w))

\* every workflow has exactly one trigger step; both poll Gmail
TriggerService(w) == "gmail"

\* rows get_workflow_steps returns for the workflow: trigger + actions
NumStoredSteps(w) == NumActionSteps(w) + 1

\* the configuration columns of the action steps of all workflows
StoredConfigurations ==
  {f \in [Workflows -> UNION {[1..NumActionSteps(w) -> ConfigurationKinds] :
                                 w \in Workflows}] :
     \A w \in Workflows : DOMAIN f[w] = 1..NumActionSteps(w)}

TaskIds == 1..MaxTasks
RunIds == 1..MaxRuns
PipelineIds == 1..MaxPipelines

VARIABLES
  wf_status,             \* workflows.status
  wf_is_active,          \* workflows.is_active
  total_executions,      \* workflows.total_executions
  successful_executions, \* workflows.successful_executions
  failed_executions,     \* workflows.failed_executions
  integrations,          \* services the owner has an integration row for
  inbox,                 \* matching emails the mailbox has not yet returned
  mailbox,               \* matching emails by arrival time, and who has got them
  now,                   \* datetime.now(), in hours
  executions,            \* workflow_executions rows, by execution id
  monitoring_active,     \* WorkflowMonitor.monitoring_active
  running_workflows,     \* WorkflowMonitor.running_workflows: id -> task
  tasks,                 \* the _execute_workflow_continuously tasks
  runs,                  \* the execute_workflow_steps coroutines
  trigger_config,        \* workflow_steps.configuration of the trigger step
  stored_configuration,  \* what the configuration column of each action step holds
  step_configuration,    \* workflow_steps.configuration of the action steps
  contexts,              \* the context dicts of execute_workflow
  pipelines,             \* execute_workflow calls followed value by value
  graph,                 \* the WorkflowState of a run of the execution graph
  execution_logs,        \* WorkflowMonitor.execution_logs
  log_count,             \* how many _log_execution calls there have been
  returned_logs          \* the get_execution_logs call just made and its reply

vars == << wf_status, wf_is_active, total_executions, successful_executions,
           failed_executions, integrations, inbox, now, executions, monitoring_active,
           running_workflows, tasks, runs, trigger_config, stored_configuration,
           mailbox, step_configuration,
           contexts, pipelines, graph, execution_logs, log_count,
           returned_logs >>

log_vars == << execution_logs, log_count, returned_logs >>
counters == << total_executions, successful_executions, failed_executions >>
workflow_rows == << wf_status, wf_is_active >>
monitor_vars == << monitoring_active, running_workflows >>
pipeline_vars == << step_configuration, contexts, pipelines, graph >>
engine_vars_but_logs ==
  << wf_status, wf_is_active, total_executions, successful_executions,
     failed_executions, integrations, inbox, executions, monitoring_active,
     running_workflows, tasks, runs, trigger_config, stored_configuration,
     mailbox, now >>
engine_vars == << engine_vars_but_logs, log_vars >>

\* ------------------------------------------------------------- records
NoTask == [workflow |-> "-", pc |-> "none", cancel |-> FALSE, pending |-> 0,
           events |-> 0, error |-> "none", last_check |-> 0, since |-> 0,
           steps |-> << >>, trigger |-> "none"]

NewTask(w) == [workflow |-> w, pc |-> "created", cancel |-> FALSE,
               pending |-> 0, events |-> 0, error |-> "none",
               last_check |-> 0, since |-> 0, steps |-> << >>,
               trigger |-> "none"]

NoRun == [workflow |-> "-", task |-> 0, event |-> 0, pc |-> "none",
          step |-> 0, invoked |-> << >>, created |-> FALSE, error |-> "none",
          steps |-> << >>, success |-> FALSE, execution_id |-> 0]

\* completed_at of a row that has none (None)
NoTime == 0 - 1

NoExecution == [id |-> 0, workflow |-> "-", status |-> "none", total_steps |-> 0,
                completed_steps |-> 0, failed_steps |-> 0,
                step_results |-> << >>, error_message |-> "none",
                error_step_id |-> 0, completed_at |-> NoTime]

\* the values uuid.uuid4() has returned for execution ids so far
UsedIds == {runs[r].execution_id : r \in RunIds} \cup
           {executions[r].id : r \in RunIds}

\* str(uuid.uuid4()), the n-th call of the step: a value never returned
\* before (0 is no id)
uuid4(n) == Cardinality(UsedIds \ {0}) + n

\* create_execution: the row inserted for a new run, under an id of its own
\* (line 283); the caller of execute_workflow_steps has drawn its
\* execution_id before
NewExecution(w) == [id |-> uuid4(2), workflow |-> w, status |-> "running",
                    total_steps |-> NumStoredSteps(w),
                    completed_steps |-> 0, failed_steps |-> 0,
                    step_results |-> << >>, error_message |-> "none",
                    error_step_id |-> 0, completed_at |-> NoTime]

\* a context dict before execute_workflow has built it
NoContext == [trigger_data |-> << >>, step_outputs |-> << >>]

NoPipeline == [pc |-> "none", step |-> 0, trigger_data |-> << >>,
               resolved |-> << >>]

\* the graph before WorkflowManager.execute_workflow is called
NoGraph == [node |-> "none", zap_steps |-> 0, action_steps |-> 0,
            total_steps |-> 0, current_step |-> 0, step_results |-> << >>,
            retry_count |-> 0, max_retries |-> 0, should_continue |-> FALSE,
            execution_status |-> "none", error |-> "none",
            invoked |-> [k \in 1..MaxZapSteps |-> 0], ai |-> {}]

\* ------------------------------------------------------------ Init
\* create_workflow inserts status 'draft' with the is_active flag the caller
\* passes and zero counters; the monitor object starts idle.
\* no get_execution_logs call yet
NoReturnedLogs == [workflow_id |-> "-", user_id |-> "-", limit |-> 0,
                   logs |-> << >>]

\* everything but the execution log
InitButLogs ==
  /\ wf_status = [w \in Workflows |-> "draft"]
  /\ wf_is_active \in [Workflows -> BOOLEAN]
  /\ total_executions = [w \in Workflows |-> 0]
  /\ successful_executions = [w \in Workflows |-> 0]
  /\ failed_executions = [w \in Workflows |-> 0]
  /\ integrations \in SUBSET Services
  /\ inbox \in 0..MaxInbox
  /\ mailbox = {}
  /\ now = 0
  /\ executions = [r \in RunIds |-> NoExecution]
  /\ monitoring_active = FALSE
  /\ running_workflows = [w \in Workflows |-> 0]
  /\ tasks = [t \in TaskIds |-> NoTask]
  /\ runs = [r \in RunIds |-> NoRun]
  /\ trigger_config \in [Workflows -> TriggerConfigKinds]
  /\ stored_configuration \in StoredConfigurations
  /\ step_configuration = << >>
  /\ contexts = [c \in PipelineIds |-> NoContext]
  /\ pipelines = [p \in PipelineIds |-> NoPipeline]
  /\ graph = NoGraph

Init ==
  /\ InitButLogs
  /\ execution_logs = << >>
  /\ log_count = 0
  /\ returned_logs = NoReturnedLogs

\* ------------------------------------------------------ the environment
\* WorkflowService.update_workflow_status: both columns are written together
update_workflow_status(w, is_active) ==
  /\ wf_status[w] # "none"
  /\ wf_is_active' = [wf_is_active EXCEPT ![w] = is_active]
  /\ wf_status' = [wf_status EXCEPT ![w] = IF is_active THEN "active" ELSE "paused"]
  /\ UNCHANGED << counters, integrations, log_vars, trigger_config, stored_configuration, mailbox, now, pipeline_vars, inbox, executions, monitor_vars, tasks, runs >>

\* WorkflowService.delete_workflow: the steps and the row are deleted; a row
\* that is not in the store has status "none", no flag and no counters
delete_workflow(w) ==
  /\ wf_status[w] # "none"
  /\ wf_status' = [wf_status EXCEPT ![w] = "none"]
  /\ wf_is_active' = [wf_is_active EXCEPT ![w] = FALSE]
  /\ total_executions' = [total_executions EXCEPT ![w] = 0]
  /\ successful_executions' = [successful_executions EXCEPT ![w] = 0]
  /\ failed_executions' = [failed_executions EXCEPT ![w] = 0]
  /\ UNCHANGED << integrations, log_vars, trigger_config, stored_configuration, mailbox, now, pipeline_vars, inbox,
                  executions, monitor_vars, tasks, runs >>

\* WorkflowService.update_workflow_step with a new configuration for step k
\* of the workflow (0 is the trigger step): the column gets json.dumps of
\* it.  No row is updated when the steps have been deleted.
update_workflow_step(w, k) ==
  /\ wf_status[w] # "none"
  /\ trigger_config' = IF k = 0 THEN [trigger_config EXCEPT ![w] = "json"]
                       ELSE trigger_config
  /\ stored_configuration' =
       IF k = 0 THEN stored_configuration
       ELSE [stored_configuration EXCEPT ![w][k] = "json"]
  /\ UNCHANGED << workflow_rows, counters, integrations, log_vars, mailbox, now,
                  pipeline_vars, inbox, executions, monitor_vars, tasks, runs >>

\* ------------------------------------------------------------ monitor
\* WorkflowMonitor.start_monitoring.  Each call creates one more
\* _monitoring_loop task; a loop ends only when it wakes up and finds
\* monitoring_active false, so there is a loop whenever monitoring_active
\* holds, and all loops do the same: their number is not recorded.
start_monitoring ==
  /\ monitoring_active' = TRUE
  /\ UNCHANGED << workflow_rows, counters, integrations, log_vars, trigger_config, stored_configuration, mailbox, now, pipeline_vars, inbox, executions,
                  running_workflows, tasks, runs >>

\* a stop that only lowers the flag
stop_monitoring_FlagOnly ==
  /\ monitoring_active' = FALSE
  /\ UNCHANGED << tasks, running_workflows >>
  /\ UNCHANGED << workflow_rows, counters, integrations, log_vars, trigger_config, stored_configuration, mailbox, now, pipeline_vars, inbox, executions, runs >>

\* WorkflowMonitor.stop_monitoring: task.cancel() for every entry, then clear().
\* cancel() only requests the cancellation; a finished task ignores it.
stop_monitoring ==
  /\ monitoring_active' = FALSE
  /\ tasks' = [t \in TaskIds |->
                 IF \E w \in Workflows : running_workflows[w] = t
                 THEN IF tasks[t].pc = "done" THEN NoTask
                      ELSE [tasks[t] EXCEPT !.cancel = TRUE]
                 ELSE tasks[t]]
  /\ running_workflows' = [w \in Workflows |-> 0]
  /\ UNCHANGED << workflow_rows, counters, integrations, log_vars, trigger_config, stored_configuration, mailbox, now, pipeline_vars, inbox, executions, runs >>

\* _get_active_workflows: status.eq.active OR is_active.eq.true
IsActiveRow(w) == wf_status[w] = "active" \/ wf_is_active[w]

\* a loop that starts a task for every active row it reads
ShouldStartTask_NoMembershipTest(w) == IsActiveRow(w)

\* _monitoring_loop, line 67: "if workflow_id not in self.running_workflows"
ShouldStartTask(w) == IsActiveRow(w) /\ running_workflows[w] = 0

NeedTask == {w \in Workflows : ShouldStartTask(w)}
FreeTasks == {t \in TaskIds : tasks[t].pc = "none"}

\* the task objects create_task returns for the ids that need one
Alloc == CHOOSE f \in [NeedTask -> FreeTasks] :
           \A a, b \in NeedTask : a # b => f[a] # f[b]

\* a loop that never looks at the state of its tasks
TaskStopped_NeverDropped(t) == FALSE

\* _monitoring_loop, line 83: task.done() or task.cancelled()
TaskStopped(t) == tasks[t].pc = "done"

\* One pass of the while body of _monitoring_loop (it has no suspension point
\* before the sleep): start the missing tasks, then drop the finished ones.
Tick ==
  /\ monitoring_active
  /\ Cardinality(FreeTasks) >= Cardinality(NeedTask)
  /\ LET started == [w \in Workflows |->
                       IF w \in NeedTask THEN Alloc[w] ELSE running_workflows[w]]
         stopped == {w \in Workflows : started[w] # 0 /\ w \notin NeedTask
                                       /\ TaskStopped(started[w])}
     IN /\ running_workflows' = [w \in Workflows |->
                                   IF w \in stopped THEN 0 ELSE started[w]]
        /\ tasks' = [t \in TaskIds |->
                       IF \E w \in NeedTask : Alloc[w] = t
                       THEN NewTask(CHOOSE w \in NeedTask : Alloc[w] = t)
                       ELSE IF \E w \in stopped : started[w] = t
                            THEN NoTask
                            ELSE tasks[t]]
  /\ UNCHANGED << workflow_rows, counters, integrations, log_vars, trigger_config, stored_configuration, mailbox, now, pipeline_vars, inbox, executions,
                  monitoring_active, runs >>

\* ------------------------------------------------------- polling tasks
\* a task returns or is cancelled: a finished task stays in running_workflows
\* until a tick drops it; one nobody refers to is garbage
TaskExit(t) ==
  IF running_workflows[tasks[t].workflow] = t
  THEN [tasks[t] EXCEPT !.pc = "done", !.pending = 0, !.events = 0,
                        !.last_check = 0, !.since = 0, !.steps = << >>,
                        !.trigger = "none"]
  ELSE NoTask

\* lines 188-191: json.loads of a configuration that is a string
ParsedTriggerConfig(kind) == IF kind = "text" THEN "invalid" ELSE "dict"

\* lines 191-198: JSONDecodeError is caught, the error is logged and the
\* coroutine returns
AfterInvalidConfig(t) ==
  [TaskExit(t) EXCEPT !.error = IF TaskExit(t).pc = "done" THEN "config" ELSE @]

\* _execute_workflow_continuously, lines 113-138: the rows of the steps are
\* read once, when the task starts, and passed as "steps" and
\* "trigger_step" to _execute_gmail_workflow, which keeps them for all its
\* ticks and runs
StepRows(t) ==
  IF tasks[t].pc = "created"
  THEN [steps |-> stored_configuration[tasks[t].workflow],
        trigger |-> trigger_config[tasks[t].workflow]]
  ELSE [steps |-> tasks[t].steps, trigger |-> tasks[t].trigger]

\* _execute_gmail_workflow, lines 182-222: "while self.monitoring_active",
\* the configuration of trigger_step is parsed and the poll is issued with
\* since = last_check.
LoopHead(t, last_check) ==
  IF ~monitoring_active THEN TaskExit(t)
  ELSE IF ParsedTriggerConfig(StepRows(t).trigger) = "invalid"
       THEN AfterInvalidConfig(t)
       ELSE [tasks[t] EXCEPT !.pc = "polling", !.pending = 0, !.events = 0,
                             !.error = "none", !.last_check = last_check,
                             !.since = last_check,
                             !.steps = StepRows(t).steps,
                             !.trigger = StepRows(t).trigger]

\* First step of _execute_workflow_continuously: read the steps (none are
\* left of a deleted workflow: return), find the trigger step, dispatch on
\* its service; _execute_gmail_workflow returns at once without a Gmail
\* integration, else enters its loop and issues a poll.
TaskBegin(t) ==
  /\ tasks[t].pc = "created"
  /\ ~tasks[t].cancel
  /\ tasks' = [tasks EXCEPT ![t] =
                 IF wf_status[tasks[t].workflow] # "none"
                    /\ TriggerService(tasks[t].workflow) = "gmail"
                    /\ "gmail" \in integrations
                 THEN LoopHead(t, now - Lookback)
                 ELSE TaskExit(t)]
  /\ UNCHANGED << workflow_rows, counters, integrations, log_vars, trigger_config, stored_configuration, mailbox, now, pipeline_vars, inbox, executions,
                  monitor_vars, runs >>

RECURSIVE SumPending(_)
SumPending(S) ==
  IF S = {} THEN 0
  ELSE LET t == CHOOSE x \in S : TRUE
       IN tasks[t].pending + SumPending(S \ {t})

RunsCreated == Cardinality({r \in RunIds : runs[r].pc # "none"})
NextRunId == RunsCreated + 1
\* run ids not yet promised to an email
AvailableRuns == MaxRuns - RunsCreated - SumPending(TaskIds)

\* a tick that moves last_check only when the poll found something
LastCheckAfterTick_OnlyOnEvents(task) ==
  IF task.events = 0 THEN task.last_check ELSE now

\* line 274: last_check = datetime.now(), after the if on new_emails
LastCheckAfterTick(task) == now

\* time passes
ClockTick ==
  /\ now < MaxClock
  /\ now' = now + 1
  /\ UNCHANGED << workflow_rows, counters, integrations, log_vars, trigger_config,
                  stored_configuration, mailbox, pipeline_vars, inbox, executions,
                  monitor_vars, tasks, runs >>

\* A matching email arrives in the mailbox of the owner.
email_arrives ==
  /\ Cardinality(mailbox) < MaxInbox
  /\ \A e \in mailbox : e.time # now
  /\ mailbox' = mailbox \cup {[time |-> now, seen |-> {}]}
  /\ UNCHANGED << workflow_rows, counters, integrations, log_vars, trigger_config,
                  stored_configuration, now, pipeline_vars, inbox, executions,
                  monitor_vars, tasks, runs >>

\* check_gmail_emails, line 224: the query "after:<since>" answers with the
\* emails that arrived since; one the task has got before arrived before
\* the last_check that followed it
Matching(t) ==
  {e \in mailbox : tasks[t].workflow \notin e.seen /\ e.time >= tasks[t].since}

\* check_gmail_emails returns the emails found, or [] after an error inside
\* (it catches every error, lines 255-264); its argument since is gone with
\* the call.  n emails come from the inbox.
\* No event: last_check = now and sleep(120) follow without suspension.
TaskPollReturn(t, n) ==
  /\ tasks[t].pc = "polling"
  /\ ~tasks[t].cancel
  /\ n <= inbox
  /\ \E found \in {{}, Matching(t)} :
       LET new_emails == n + Cardinality(found)
       IN /\ new_emails <= AvailableRuns
          /\ inbox' = inbox - n
          /\ mailbox' = {IF e \in found
                         THEN [e EXCEPT !.seen = @ \cup {tasks[t].workflow}]
                         ELSE e : e \in mailbox}
          /\ tasks' = [tasks EXCEPT ![t] =
                         IF new_emails = 0
                         THEN [@ EXCEPT !.pc = "sleeping", !.since = 0,
                                        !.last_check = LastCheckAfterTick(tasks[t])]
                         ELSE [@ EXCEPT !.pc = "processing", !.since = 0,
                                        !.pending = new_emails,
                                        !.events = new_emails]]
  /\ UNCHANGED << workflow_rows, counters, integrations, log_vars, trigger_config, stored_configuration, now, pipeline_vars, executions,
                  monitor_vars, runs >>

\* runs the task is awaiting
InFlight(t) == {r \in RunIds : runs[r].task = t /\ runs[r].pc = "awaiting"}

\* a loop that spawns the run of each email without awaiting it
CanStartNextRun_NoAwait(t) == TRUE

\* line 238: the for loop awaits execute_workflow_steps for one email before
\* it takes the next
CanStartNextRun(t) == InFlight(t) = {}

\* ------------------------------------------------------------- ledger
\* WorkflowService.log_execution_step; result is "none" when no result is
\* passed, else the success flag of the adapter's envelope ("ok" / "fail")
log_execution_step(row, k, status, result) ==
  LET counted ==
        IF status = "completed"
        THEN [row EXCEPT !.completed_steps = @ + 1]
        ELSE [row EXCEPT !.failed_steps = @ + 1,
                         !.error_message = "step_error",
                         !.error_step_id = k]
  IN IF result = "none" THEN counted
     ELSE [counted EXCEPT !.step_results =
             Append(@, [step |-> k, status |-> status, success |-> (result = "ok")])]

\* an update that does not reach the row
update_execution_status_NotWritten(row, status, error_message) == row

\* WorkflowService.update_execution_status
update_execution_status(row, status, error_message) ==
  LET updated == [row EXCEPT !.status = status,
                             !.completed_at =
                               IF status \in {"completed", "failed"} THEN now ELSE @]
  IN IF error_message = "none" THEN updated
     ELSE [updated EXCEPT !.error_message = error_message]

\* a run that goes on from its last adapter call after it has finalized
RunAfterFinalize_GoesOn(run) == run

\* execute_workflow, lines 106-119: the finalizing calls are the last
\* statements of each path, the coroutine returns
RunAfterFinalize(run) == [run EXCEPT !.pc = "returned"]

\* execute_workflow_steps, line 332: execute_workflow catches every exception
\* of the run, so the call returns and the result is success; the result is
\* kept in the field success of the run
execute_workflow_steps_success(status) == TRUE

\* End of a run whose execution row exists: update_execution_status,
\* update_workflow_statistics, then the caller's branch on result['success']
\* with _update_workflow_execution_count; neither changes anything when the
\* workflow row has been deleted meanwhile.
Finalize(r, run, row, status, error_message) ==
  LET w == run.workflow
      stats_total == total_executions[w] + 1
  IN /\ executions' = [executions EXCEPT ![r] =
                         update_execution_status(row, status, error_message)]
     /\ IF wf_status[w] = "none"
        THEN UNCHANGED counters
        ELSE /\ successful_executions' =
                  [successful_executions EXCEPT ![w] =
                     IF status = "completed" THEN @ + 1 ELSE @]
             /\ failed_executions' =
                  [failed_executions EXCEPT ![w] =
                     IF status = "failed" THEN @ + 1 ELSE @]
             /\ total_executions' =
                  [total_executions EXCEPT ![w] =
                     IF execute_workflow_steps_success(status)
                     THEN stats_total + 1 ELSE stats_total]
     /\ runs' = [runs EXCEPT ![r] =
                  [RunAfterFinalize(run) EXCEPT
                     !.success = execute_workflow_steps_success(status)]]

\* ----------------------------------------------------------- executor
\* execute_workflow_steps, lines 289-295: a configuration that is a string
\* is parsed, and replaced by {} when it is not JSON
converted_configuration(kind) ==
  IF kind = "json" THEN "dict" ELSE IF kind = "text" THEN "empty" ELSE kind

\* _execute_step, lines 141-154: the configuration must end up a dict,
\* else ValueError is raised before the adapter is looked up
ConfigurationRaises(kind) == kind \notin {"dict", "json", "empty"}

\* step k of the run raises before its adapter call
RaisesBeforeCall(run, k) ==
  ConfigurationRaises(converted_configuration(run.steps[k]))

\* _execute_step of step k reaches "await tool_method(step_data)"
Invoke(run, k) ==
  [run EXCEPT !.pc = "awaiting", !.step = k, !.invoked[k] = @ + 1]

\* a run that does not look the workflow row up
WorkflowFound_NotLookedUp(w) == TRUE

\* force_execute_workflow, lines 396-398, and execute_workflow_steps, lines
\* 270-272 (single() raises or the data is empty: both end in the handler)
WorkflowFound(w) == wf_status[w] # "none"

\* an outer handler that reports the failure in words of its own
FinalErrorMessage_OwnWords(step_message) == "workflow_error"

\* lines 103 and 110-118: the step error is re-raised as it is, and the
\* outer handler passes str(e) of the same exception
FinalErrorMessage(step_message) == step_message

\* execute_workflow_steps and execute_workflow up to the first adapter call;
\* execution_id is the id the caller has drawn (workflow_monitor.py, lines
\* 234 and 418), which line 332 gives back.
\* Without the workflow row the result is the error and nothing else is
\* done.  create_execution raising is caught by the outer handler, which
\* finds no execution_id and updates nothing; the caller still sees success.
BeginRun(r, w, t, e, steps, created) ==
  LET run == [workflow |-> w, task |-> t, event |-> e, pc |-> "start",
              step |-> 0, invoked |-> [k \in 1..NumActionSteps(w) |-> 0],
              created |-> created, error |-> "none", steps |-> steps,
              success |-> FALSE, execution_id |-> uuid4(1)]
      failed == log_execution_step(NewExecution(w), 1, "failed", "none")
  IN IF ~WorkflowFound(w)
     THEN /\ runs' = [runs EXCEPT ![r] =
                       [run EXCEPT !.pc = "returned", !.created = FALSE,
                                   !.error = "workflow_not_found",
                                   !.execution_id = IF t = 0 THEN 0 ELSE @]]
          /\ UNCHANGED << executions, counters >>
     ELSE IF ~created
     THEN /\ runs' = [runs EXCEPT ![r] =
                       [run EXCEPT !.pc = "returned",
                                   !.success = execute_workflow_steps_success("none")]]
          /\ total_executions' =
               [total_executions EXCEPT ![w] =
                  IF execute_workflow_steps_success("none") THEN @ + 1 ELSE @]
          /\ UNCHANGED << executions, successful_executions, failed_executions >>
     ELSE IF NumActionSteps(w) = 0
          THEN Finalize(r, run, NewExecution(w), "completed", "none")
          ELSE IF RaisesBeforeCall(run, 1)
               THEN Finalize(r, [run EXCEPT !.step = 1], failed, "failed",
                             FinalErrorMessage(failed.error_message))
               ELSE /\ executions' = [executions EXCEPT ![r] = NewExecution(w)]
                    /\ runs' = [runs EXCEPT ![r] = Invoke(run, 1)]
                    /\ UNCHANGED counters

\* _execute_gmail_workflow, lines 233-243: the next email of the tick
TaskStartRun(t) ==
  /\ tasks[t].pc = "processing"
  /\ tasks[t].pending > 0
  /\ CanStartNextRun(t)
  /\ \E created \in BOOLEAN :
       BeginRun(NextRunId, tasks[t].workflow, t,
                tasks[t].events - tasks[t].pending + 1, tasks[t].steps, created)
  /\ tasks' = [tasks EXCEPT ![t].pending = @ - 1]
  /\ UNCHANGED << workflow_rows, integrations, log_vars, trigger_config, stored_configuration, mailbox, now, pipeline_vars, inbox, monitor_vars >>

\* WorkflowMonitor.force_execute_workflow: the steps are read at the call
force_execute_workflow(w) ==
  /\ AvailableRuns > inbox
  /\ \E created \in BOOLEAN :
       BeginRun(NextRunId, w, 0, 0, stored_configuration[w], created)
  /\ UNCHANGED << workflow_rows, integrations, log_vars, trigger_config, stored_configuration, mailbox, now, pipeline_vars, inbox, monitor_vars, tasks >>

\* What the adapter call can give back: an envelope with success true, an
\* envelope with success false, or an exception.  Without the integration row
\* of the service the adapters cannot succeed (notion_tool.py 430-432).
AdapterOutcomes(service) ==
  IF service \in integrations THEN {"ok", "fail", "raise"} ELSE {"fail", "raise"}

\* a handler that logs the failed step and goes on with the next one
StepAfterError_Skip(k, n) == k + 1

\* a handler that logs the failed step and tries it again
StepAfterError_Retry(k, n) == k

\* lines 94-103: the handler logs the failed step and re-raises, which leaves
\* the for loop: the step that runs next is none (NumActionSteps + 1)
StepAfterError(k, n) == n + 1

\* a polling task that ends when a run it awaited has failed
TaskAfterRun_EndOnFailure(task, status) ==
  IF status = "failed"
  THEN [task EXCEPT !.pc = "done", !.pending = 0, !.events = 0]
  ELSE task

\* workflow_monitor.py, lines 245-272: both branches on the result and the
\* handler of the inner try only log; the for loop goes on
TaskAfterRun(task, status) == task

\* a loop that hands the result to the ledger without awaiting the call
LedgerAfterStep_NotAwaited(row, logged) == row

\* lines 82-87 and 96-101: log_execution_step is awaited before the loop or
\* the handler goes on
LedgerAfterStep(row, logged) == logged

\* The adapter call of step k returns or raises (lines 77-103), and the run
\* goes on to the next adapter call, unless the next step raises before it,
\* or to its end (lines 105-119), where the polling task that awaits it
\* takes over.
RunStepReturn(r, outcome) ==
  LET w == runs[r].workflow
      t == runs[r].task
      k == runs[r].step
      n == NumActionSteps(w)
      next == IF outcome = "raise" THEN StepAfterError(k, n) ELSE k + 1
      logged == IF outcome = "raise"
                THEN log_execution_step(executions[r], k, "failed", "none")
                ELSE log_execution_step(executions[r], k, "completed", outcome)
      raises == next <= n /\ RaisesBeforeCall(runs[r], next)
      failed == log_execution_step(LedgerAfterStep(executions[r], logged),
                                   next, "failed", "none")
      status == IF outcome = "raise" \/ raises THEN "failed" ELSE "completed"
  IN /\ runs[r].pc = "awaiting"
     /\ runs[r].task # 0 => ~tasks[runs[r].task].cancel
     /\ outcome \in AdapterOutcomes(ActionSteps(w)[k].service)
     /\ IF raises
        THEN Finalize(r, [runs[r] EXCEPT !.step = next], failed, "failed",
                      FinalErrorMessage(failed.error_message))
        ELSE IF next <= n
        THEN /\ runs[r].invoked[next] < MaxInvocations
             /\ executions' = [executions EXCEPT ![r] = LedgerAfterStep(@, logged)]
             /\ runs' = [runs EXCEPT ![r] = Invoke(@, next)]
             /\ UNCHANGED counters
        ELSE IF outcome = "raise"
             THEN Finalize(r, runs[r], logged, "failed",
                           FinalErrorMessage(logged.error_message))
             ELSE Finalize(r, runs[r], logged, "completed", "none")
     /\ tasks' = IF (next > n \/ raises) /\ t # 0
                 THEN [tasks EXCEPT ![t] = TaskAfterRun(@, status)]
                 ELSE tasks
     /\ UNCHANGED << workflow_rows, integrations, log_vars, trigger_config, stored_configuration, mailbox, now, pipeline_vars, inbox, monitor_vars >>

\* lines 274-277: the for loop is over; last_check = now, sleep(120)
TaskEndTick(t) ==
  /\ tasks[t].pc = "processing"
  /\ tasks[t].pending = 0
  /\ InFlight(t) = {}
  /\ tasks' = [tasks EXCEPT ![t].pc = "sleeping",
                            ![t].last_check = LastCheckAfterTick(tasks[t])]
  /\ UNCHANGED << workflow_rows, counters, integrations, log_vars, trigger_config, stored_configuration, mailbox, now, pipeline_vars, inbox, executions,
                  monitor_vars, runs >>

\* Lines 281-288: an exception the tick does not expect (check_gmail_emails
\* and the runs catch their own) reaches the handler of the while body,
\* which logs it and sleeps 300 s.
TaskTickError(t) ==
  /\ tasks[t].pc = "polling"
  /\ ~tasks[t].cancel
  /\ tasks' = [tasks EXCEPT ![t].pc = "backoff", ![t].error = "unexpected",
                            ![t].since = 0]
  /\ UNCHANGED << workflow_rows, counters, integrations, log_vars, trigger_config, stored_configuration, mailbox, now,
                  pipeline_vars, inbox, executions, monitor_vars, runs >>

\* sleep(120) or sleep(300) is over: back to the loop head
TaskWake(t) ==
  /\ tasks[t].pc \in {"sleeping", "backoff"}
  /\ ~tasks[t].cancel
  /\ tasks' = [tasks EXCEPT ![t] = LoopHead(t, tasks[t].last_check)]
  /\ UNCHANGED << workflow_rows, counters, integrations, log_vars, trigger_config, stored_configuration, mailbox, now, pipeline_vars, inbox, executions,
                  monitor_vars, runs >>

\* the awaits at which a task can be suspended: before its first step, in
\* check_gmail_emails, in an adapter call of the run it awaits, in sleep
Suspended(t) ==
  \/ tasks[t].pc \in {"created", "polling", "sleeping", "backoff"}
  \/ tasks[t].pc = "processing" /\ InFlight(t) # {}

\* The CancelledError requested by task.cancel() is raised at the await the
\* task is suspended in.  No handler on the way catches it (they catch
\* Exception) until "except asyncio.CancelledError: break" (line 279) or
\* the one of _execute_workflow_continuously (line 149): the task ends, and a
\* run it was awaiting is left where it was.
CancelDelivered(t) ==
  /\ tasks[t].cancel
  /\ Suspended(t)
  /\ tasks' = [tasks EXCEPT ![t] = TaskExit(t)]
  /\ runs' = [r \in RunIds |->
                IF r \in InFlight(t) THEN [runs[r] EXCEPT !.pc = "aborted"]
                ELSE runs[r]]
  /\ UNCHANGED << workflow_rows, counters, integrations, log_vars, trigger_config, stored_configuration, mailbox, now, pipeline_vars, inbox, executions, monitor_vars >>

\* The process ends and is started again: the monitor object is constructed
\* anew (WorkflowMonitor.__init__), the tasks and the coroutines of the old
\* process are gone, the rows in the store stay as they were.
Restart ==
  /\ monitoring_active' = FALSE
  /\ running_workflows' = [w \in Workflows |-> 0]
  /\ tasks' = [t \in TaskIds |-> NoTask]
  /\ runs' = [r \in RunIds |->
                IF runs[r].pc = "awaiting" THEN [runs[r] EXCEPT !.pc = "aborted"]
                ELSE runs[r]]
  /\ UNCHANGED << workflow_rows, counters, integrations, log_vars, trigger_config, stored_configuration, mailbox, now,
                  pipeline_vars, inbox, executions >>

\* ------------------------------------------------ template resolution
\* A string is the sequence of its pieces: a piece is literal text or one
\* whole placeholder "{{key.sub_key}}".
Lit(text) == [ns |-> "lit", field |-> text]

\* _resolve_template, line 131: f"{{{{{key}.{sub_key}}}}}"
Placeholder(key, sub_key) == [ns |-> key, field |-> sub_key]

\* a value is a str, or an int or a dict given by its printed form
StrValue(s) == [type |-> "str", val |-> s]
IntValue(text) == [type |-> "int", val |-> << Lit(text) >>]
DictValue(repr) == [type |-> "dict", val |-> << Lit(repr) >>]

\* str(sub_value), line 132
Str(v) == v.val

\* str.replace(placeholder, by): every occurrence, left to right, the text
\* put in is not scanned again
RECURSIVE Replace(_, _, _)
Replace(s, placeholder, by) ==
  IF s = << >> THEN << >>
  ELSE IF Head(s) = placeholder
       THEN by \o Replace(Tail(s), placeholder, by)
       ELSE << Head(s) >> \o Replace(Tail(s), placeholder, by)

\* lines 130-132: the items of one dict of the context, in insertion order
RECURSIVE ResolveItems(_, _, _)
ResolveItems(s, key, items) ==
  IF items = << >> THEN s
  ELSE ResolveItems(Replace(s, Placeholder(key, Head(items).key),
                            Str(Head(items).value)),
                    key, Tail(items))

\* lines 128-129: the entries of the context in insertion order; only the
\* dict-valued ones are looked into
RECURSIVE ResolveEntries(_, _)
ResolveEntries(s, entries) ==
  IF entries = << >> THEN s
  ELSE ResolveEntries(IF Head(entries).is_dict
                      THEN ResolveItems(s, Head(entries).key, Head(entries).items)
                      ELSE s,
                      Tail(entries))

\* WorkflowExecutor._resolve_template
resolve_template(template_string, context) ==
  IF template_string.type # "str" THEN template_string
  ELSE StrValue(ResolveEntries(template_string.val, context))

\* execute_workflow, lines 63-69: the keys of the context dict in the order
\* of the literal
Context(c) ==
  << [key |-> "trigger_data", is_dict |-> TRUE, items |-> c.trigger_data],
     [key |-> "workflow_id", is_dict |-> FALSE, items |-> << >>],
     [key |-> "execution_id", is_dict |-> FALSE, items |-> << >>],
     [key |-> "step_outputs", is_dict |-> TRUE, items |-> c.step_outputs],
     [key |-> "user_id", is_dict |-> FALSE, items |-> << >>] >>

\* a resolver that also prints and resolves the values that are not strings
ResolvedValue_Stringify(value, context) ==
  StrValue(ResolveEntries(Str(value), context))

\* _execute_step, lines 159-162
ResolvedValue(value, context) ==
  IF value.type = "str" THEN resolve_template(value, context) ELSE value

\* _execute_step, lines 157-162: resolved_config
resolved_config(config, context) ==
  [key \in DOMAIN config |-> ResolvedValue(config[key], context)]

\* a step whose resolved values are written back into its configuration
StoredAfterResolve_InPlace(config, resolved) == resolved

\* line 157: resolved_config is a new dict, config is only read
StoredAfterResolve(config, resolved) == config

\* the pieces a stored template is made of
TemplateTokens ==
  { Lit("Re: "),
    Placeholder("trigger", "subject"),
    Placeholder("trigger_data", "subject"),
    Placeholder("trigger_data", "body"),
    Placeholder("steps", "2.page_id"),
    Placeholder("step_outputs", "2") }

Templates == UNION {[1..n -> TemplateTokens] : n \in 0..MaxTemplateLen}

\* the configuration of an action step: a template and a number
StepConfig(template) ==
  [title_template |-> StrValue(template), max_results |-> IntValue("10")]

\* str(step.step_order): the trigger step has order 1, the actions follow
StepOrderKey(k) == IF k = 1 THEN "2" ELSE "3"

\* what the emails and the adapter results of the pipelines look like
Subjects == << "Invoice #42", "Invoice #43", "Invoice #44", "Invoice #45" >>
Bodies == << "body 1", "body 2", "body 3", "body 4" >>
ResultReprs == << << "{'success': True, 'page_id': 'p1'}", "{'success': True, 'message_id': 'm1'}" >>,
                  << "{'success': True, 'page_id': 'p2'}", "{'success': True, 'message_id': 'm2'}" >>,
                  << "{'success': True, 'page_id': 'p3'}", "{'success': True, 'message_id': 'm3'}" >>,
                  << "{'success': True, 'page_id': 'p4'}", "{'success': True, 'message_id': 'm4'}" >> >>

\* parse_email_message: the fields of the email the poll returned for
\* pipeline p; the body is plain text or quotes a placeholder
Email(p, body) ==
  << [key |-> "subject", value |-> StrValue(<< Lit(Subjects[p]) >>)],
     [key |-> "body", value |-> StrValue(body)] >>

Emails(p) ==
  { Email(p, << Lit(Bodies[p]) >>),
    Email(p, << Placeholder("trigger_data", "subject") >>) }

\* a context dict kept in one place for all the calls
ContextOf_OnExecutor(p) == 1

\* line 63: the context is a dict built in the frame of the call
ContextOf(p) == p

\* the caller reads the workflow_steps rows (workflow_monitor.py 113, 404)
fetch_steps(template) ==
  /\ step_configuration = << >>
  /\ step_configuration' = [k \in 1..NumActionSteps("w1") |-> StepConfig(template)]
  /\ UNCHANGED << engine_vars, contexts, pipelines, graph >>

\* _execute_step of step k of pipeline p up to the adapter call, with the
\* context as it is in ctxs
ExecuteStep(p, pipeline, k, ctxs) ==
  LET config == step_configuration[k]
      resolved == resolved_config(config, Context(ctxs[ContextOf(p)]))
  IN /\ pipelines' = [pipelines EXCEPT ![p] =
                        [pipeline EXCEPT !.pc = "awaiting", !.step = k,
                                         !.resolved = Append(@, resolved)]]
     /\ step_configuration' =
          [step_configuration EXCEPT ![k] = StoredAfterResolve(config, resolved)]

\* execute_workflow for one email, up to the first adapter call
execute_workflow(p, email) ==
  /\ step_configuration # << >>
  /\ pipelines[p].pc = "none"
  /\ \A q \in PipelineIds : q < p => pipelines[q].pc # "none"
  /\ LET ctxs == [contexts EXCEPT ![ContextOf(p)] =
                    [trigger_data |-> email, step_outputs |-> << >>]]
     IN /\ contexts' = ctxs
        /\ ExecuteStep(p, [NoPipeline EXCEPT !.trigger_data = email], 1, ctxs)
  /\ UNCHANGED << engine_vars, graph >>

\* the adapter call of a pipeline returns its result or raises
step_returns(p, raised) ==
  LET k == pipelines[p].step
      output == [key |-> StepOrderKey(k), value |-> DictValue(ResultReprs[p][k])]
      ctxs == [contexts EXCEPT ![ContextOf(p)].step_outputs = Append(@, output)]
  IN /\ pipelines[p].pc = "awaiting"
     /\ IF raised
        THEN /\ pipelines' = [pipelines EXCEPT ![p].pc = "failed"]
             /\ UNCHANGED << contexts, step_configuration >>
        ELSE /\ contexts' = ctxs
             /\ IF k < NumActionSteps("w1")
                THEN ExecuteStep(p, pipelines[p], k + 1, ctxs)
                ELSE /\ pipelines' = [pipelines EXCEPT ![p].pc = "completed"]
                     /\ UNCHANGED step_configuration
     /\ UNCHANGED << engine_vars, graph >>

\* ------------------------------------------------- the execution graph
\* graph/workflow.py and graph/nodes.py: one run of the LangGraph execution
\* graph, node by node.  Steps are counted from 1 here; current_step is the
\* code's 0-based index, so the step it names is current_step + 1.
NoStepResult == [step |-> 0, success |-> FALSE]

\* service_name of the action steps of the zap that are not AI steps
ZapService(k) == IF k % 2 = 1 THEN "notion" ELSE "telegram"

\* service_name of step k of the zap of the run; ai is the set of its AI
\* steps
StepService(state, k) == IF k \in state.ai THEN "ai" ELSE ZapService(k)

\* create_initial_workflow_state
InitialWorkflowState(n) ==
  [node |-> "fetch_config", zap_steps |-> n, action_steps |-> 0,
   total_steps |-> 0, current_step |-> 0, step_results |-> << >>,
   retry_count |-> 0, max_retries |-> GraphMaxRetries, should_continue |-> TRUE,
   execution_status |-> "running", error |-> "none",
   invoked |-> [k \in 1..MaxZapSteps |-> 0], ai |-> {}]

\* an update that leaves current_step at a step that has failed
update_workflow_state_StaysOnFailure(state, step_result, error, should_continue, status) ==
  LET s1 == IF step_result = NoStepResult THEN state
            ELSE [state EXCEPT !.step_results = Append(@, step_result),
                               !.current_step =
                                 IF step_result.success THEN @ + 1 ELSE @]
      s2 == IF error = "none" THEN s1
            ELSE [s1 EXCEPT !.error = error, !.execution_status = "failed"]
      s3 == IF should_continue = "none" THEN s2
            ELSE [s2 EXCEPT !.should_continue = (should_continue = "True")]
  IN IF status = "none" THEN s3 ELSE [s3 EXCEPT !.execution_status = status]

\* update_workflow_state; an argument that is not passed is NoStepResult or
\* "none"
update_workflow_state(state, step_result, error, should_continue, status) ==
  LET s1 == IF step_result = NoStepResult THEN state
            ELSE [state EXCEPT !.step_results = Append(@, step_result),
                               !.current_step = Len(state.step_results) + 1]
      s2 == IF error = "none" THEN s1
            ELSE [s1 EXCEPT !.error = error, !.execution_status = "failed"]
      s3 == IF should_continue = "none" THEN s2
            ELSE [s2 EXCEPT !.should_continue = (should_continue = "True")]
  IN IF status = "none" THEN s3 ELSE [s3 EXCEPT !.execution_status = status]

\* determine_next_workflow_step
determine_next_workflow_step(state) ==
  IF ~state.should_continue
  THEN IF state.execution_status = "failed" THEN "error" ELSE "finish"
  ELSE IF state.current_step >= state.total_steps THEN "finish"
       ELSE IF /\ state.current_step < state.action_steps
               /\ StepService(state, state.current_step + 1) = "ai"
            THEN "ai_processing"
            ELSE "continue"

\* create_workflow_execution_graph, lines 88-97: the conditional edges
AfterExecuteStep(state) ==
  [state EXCEPT !.node =
     CASE determine_next_workflow_step(state) = "error" -> "handle_error"
       [] determine_next_workflow_step(state) = "finish" -> "finalize"
       [] determine_next_workflow_step(state) = "ai_processing" -> "ai_processing"
       [] OTHER -> "execute_step"]

\* WorkflowManager.execute_workflow for a zap with n action steps in the
\* store, some of them AI steps
execute_zap_workflow(n) ==
  /\ graph.node = "none"
  /\ \E ai \in SUBSET (1..n) : graph' = [InitialWorkflowState(n) EXCEPT !.ai = ai]
  /\ UNCHANGED << engine_vars, step_configuration, contexts, pipelines >>

\* fetch_zap_config, then the edge to prepare_context.  The source answers
\* the query for the zap and its steps (lines 30-33) with a fixed zap
\* without steps; the model follows every answer of the query, that one
\* included.
fetch_zap_config(raised) ==
  /\ graph.node = "fetch_config"
  /\ graph' =
       [(IF raised
         THEN update_workflow_state(graph, NoStepResult, "fetch_failed", "False", "failed")
         ELSE [graph EXCEPT !.total_steps = graph.zap_steps,
                            !.action_steps = graph.zap_steps])
        EXCEPT !.node = "prepare_context"]
  /\ UNCHANGED << engine_vars, step_configuration, contexts, pipelines >>

\* prepare_execution_context, then the edge to execute_step
prepare_execution_context(raised) ==
  LET required_services == {StepService(graph, k) : k \in 1..graph.action_steps}
      missing_integrations == required_services \ integrations
  IN /\ graph.node = "prepare_context"
     /\ graph' =
          [(IF raised
            THEN update_workflow_state(graph, NoStepResult, "prepare_failed", "False", "failed")
            ELSE IF missing_integrations # {}
                 THEN update_workflow_state(graph, NoStepResult, "missing_integrations",
                                            "False", "failed")
                 ELSE graph)
           EXCEPT !.node = "execute_step"]
     /\ UNCHANGED << engine_vars, step_configuration, contexts, pipelines >>

\* execute_workflow_step up to "await tool._arun" (lines 130-166): all steps
\* done, or an exception before the tool call, or the tool of the step
\* current_step names is invoked
execute_workflow_step(raised) ==
  /\ graph.node = "execute_step"
  /\ graph' =
       IF graph.current_step >= graph.action_steps
       THEN AfterExecuteStep(
              update_workflow_state(graph, NoStepResult, "none", "False", "completed"))
       ELSE IF raised
            THEN AfterExecuteStep(
                   update_workflow_state(graph, NoStepResult, "step_error", "False", "failed"))
            ELSE [graph EXCEPT !.node = "tool", !.invoked[graph.current_step + 1] = @ + 1]
  /\ UNCHANGED << engine_vars, step_configuration, contexts, pipelines >>

\* execute_workflow_step from the return of the tool (lines 167-219), then
\* the conditional edge
tool_returns(outcome) ==
  LET step_result == [step |-> graph.current_step + 1, success |-> (outcome = "ok")]
      updated_state == update_workflow_state(graph, step_result, "none", "none", "none")
      after == IF outcome = "ok" THEN updated_state
               ELSE IF graph.retry_count < graph.max_retries
                    THEN [updated_state EXCEPT !.retry_count = @ + 1,
                                               !.should_continue = TRUE]
                    ELSE [updated_state EXCEPT !.should_continue = FALSE,
                                               !.execution_status = "failed",
                                               !.error = "step_failed"]
  IN /\ graph.node = "tool"
     /\ outcome \in AdapterOutcomes(StepService(graph, graph.current_step + 1))
     /\ graph' = AfterExecuteStep(after)
     /\ UNCHANGED << engine_vars, step_configuration, contexts, pipelines >>

\* handle_ai_processing returns the state as it is, then the edge back to
\* execute_step
handle_ai_processing ==
  /\ graph.node = "ai_processing"
  /\ graph' = [graph EXCEPT !.node = "execute_step"]
  /\ UNCHANGED << engine_vars, step_configuration, contexts, pipelines >>

\* handle_error, then END
handle_error(raised) ==
  /\ graph.node = "handle_error"
  /\ graph' =
       [(IF raised THEN graph
         ELSE update_workflow_state(graph, NoStepResult, "none", "none", "failed"))
        EXCEPT !.node = "END"]
  /\ UNCHANGED << engine_vars, step_configuration, contexts, pipelines >>

\* finalize_execution, then END
finalize_execution(raised) ==
  /\ graph.node = "finalize"
  /\ graph' =
       [(IF raised
         THEN update_workflow_state(graph, NoStepResult, "finalize_failed", "none", "failed")
         ELSE update_workflow_state(graph, NoStepResult, "none", "none", "completed"))
        EXCEPT !.node = "END"]
  /\ UNCHANGED << engine_vars, step_configuration, contexts, pipelines >>

\* -----------------------------------------------------------------
\* The monitor's in-memory execution log
\* -----------------------------------------------------------------
\* "Keep only last 1000 logs"
LogCap == 1000

\* the user ids the log entries and the filters carry
LogUsers == {"u1", "u2"}

\* Python's s[start:] of a list
SliceFrom(s, start) ==
  LET first == IF start < 0
               THEN (IF Len(s) + start < 0 THEN 0 ELSE Len(s) + start)
               ELSE (IF start > Len(s) THEN Len(s) ELSE start)
  IN  SubSeq(s, first + 1, Len(s))

\* a trim that keeps the oldest entries
KeepLast_Oldest(logs) ==
  IF Len(logs) > LogCap THEN SubSeq(logs, 1, LogCap) ELSE logs

\* lines 343-345: if len(...) > 1000: execution_logs = execution_logs[-1000:]
KeepLast(logs) ==
  IF Len(logs) > LogCap THEN SliceFrom(logs, 0 - LogCap) ELSE logs

\* the entry of the n-th _log_execution call; n stands for its timestamp,
\* level, message and execution id
log_entry(n, workflow_id, user_id) ==
  [n |-> n, workflow_id |-> workflow_id, user_id |-> user_id]

\* the calls that are followed: the first ones of a monitor, and the ones
\* around the cap
FollowedCounts ==
  (0 .. MaxLogCalls - 1) \cup (LogCap - 1 .. LogCap + MaxLogCalls - 2)

\* WorkflowMonitor._log_execution: append, then trim.  Every call site of
\* the monitor passes the workflow's id and its owner's.
_log_execution(workflow_id, user_id) ==
  /\ log_count \in FollowedCounts
  /\ log_count' = log_count + 1
  /\ execution_logs' =
       KeepLast(Append(execution_logs,
                       log_entry(log_count + 1, workflow_id, user_id)))
  /\ returned_logs' = NoReturnedLogs
  /\ UNCHANGED << engine_vars_but_logs, pipeline_vars >>

\* WorkflowMonitor.get_execution_logs; "none" is None, the absent filter
get_execution_logs(workflow_id, user_id, limit) ==
  LET copy == execution_logs
      by_workflow == IF workflow_id # "none"
                     THEN SelectSeq(copy, LAMBDA log : log.workflow_id = workflow_id)
                     ELSE copy
      by_user == IF user_id # "none"
                 THEN SelectSeq(by_workflow, LAMBDA log : log.user_id = user_id)
                 ELSE by_workflow
  IN  /\ returned_logs' = [workflow_id |-> workflow_id, user_id |-> user_id,
                           limit |-> limit,
                           logs |-> SliceFrom(by_user, 0 - limit)]
      /\ UNCHANGED << execution_logs, log_count, engine_vars_but_logs,
                      pipeline_vars >>

Next ==
  \/ \E w \in Workflows, u \in LogUsers : _log_execution(w, u)
  \/ \E w \in Workflows \cup {"none"}, u \in LogUsers \cup {"none"},
        limit \in 0..MaxLimit : get_execution_logs(w, u, limit)
  \/ \E w \in Workflows, b \in BOOLEAN : update_workflow_status(w, b)
  \/ \E w \in Workflows : delete_workflow(w)
  \/ \E w \in Workflows : \E k \in 0..NumActionSteps(w) : update_workflow_step(w, k)
  \/ start_monitoring
  \/ stop_monitoring
  \/ Tick
  \/ \E t \in TaskIds : TaskBegin(t)
  \/ \E t \in TaskIds, n \in 0..MaxEvents : TaskPollReturn(t, n)
  \/ \E t \in TaskIds : TaskStartRun(t)
  \/ \E t \in TaskIds : TaskEndTick(t)
  \/ \E t \in TaskIds : TaskTickError(t)
  \/ \E t \in TaskIds : TaskWake(t)
  \/ \E t \in TaskIds : CancelDelivered(t)
  \/ ClockTick
  \/ email_arrives
  \/ Restart
  \/ \E w \in Workflows : force_execute_workflow(w)
  \/ \E r \in RunIds, o \in {"ok", "fail", "raise"} : RunStepReturn(r, o)
  \/ \E template \in Templates : fetch_steps(template)
  \/ \E p \in PipelineIds : \E email \in Emails(p) : execute_workflow(p, email)
  \/ \E p \in PipelineIds, raised \in BOOLEAN : step_returns(p, raised)
  \/ \E n \in 0..MaxZapSteps : execute_zap_workflow(n)
  \/ \E raised \in BOOLEAN : fetch_zap_config(raised)
  \/ \E raised \in BOOLEAN : prepare_execution_context(raised)
  \/ \E raised \in BOOLEAN : execute_workflow_step(raised)
  \/ \E o \in {"ok", "fail", "raise"} : tool_returns(o)
  \/ handle_ai_processing
  \/ \E raised \in BOOLEAN : handle_error(raised)
  \/ \E raised \in BOOLEAN : finalize_execution(raised)

\* the whole engine
Spec == Init /\ [][Next]_vars

\* every trigger step holds a JSON object
ValidTriggerConfigs == trigger_config = [w \in Workflows |-> "dict"]

\* every action step holds a JSON object
ValidStepConfigurations ==
  stored_configuration = [w \in Workflows |-> [k \in 1..NumActionSteps(w) |-> "dict"]]

\* The executor and the ledger alone: runs requested one after the other or
\* side by side through force_execute_workflow, the monitor never started.
InitExec ==
  /\ Init
  /\ ValidStepConfigurations
  /\ ValidTriggerConfigs
  /\ inbox = 0
  /\ wf_is_active = [w \in Workflows |-> FALSE]

NextExec ==
  \/ \E w \in Workflows : force_execute_workflow(w)
  \/ \E r \in RunIds, o \in {"ok", "fail", "raise"} : RunStepReturn(r, o)

SpecExec == InitExec /\ [][NextExec]_vars

\* The executor and the ledger while time passes between the steps, the
\* runs requested one after the other.
NextLedger ==
  \/ ClockTick
  \/ /\ \A r \in RunIds : runs[r].pc # "awaiting"
     /\ \E w \in Workflows : force_execute_workflow(w)
  \/ \E r \in RunIds, o \in {"ok", "fail", "raise"} : RunStepReturn(r, o)

\* every service has its integration row
InitLedger ==
  /\ InitExec
  /\ integrations = Services

SpecLedger == InitLedger /\ [][NextLedger]_vars

\* the event loop resumes a run whose adapter call has returned or raised
FairExec ==
  \A r \in RunIds : WF_vars(\E o \in {"ok", "fail", "raise"} : RunStepReturn(r, o))

\* The executor and the ledger with every adapter call returning, the runs
\* side by side.
SpecExecFair == InitLedger /\ [][NextExec]_vars /\ FairExec

\* The monitor and its polling tasks while no matching email arrives: every
\* poll returns the empty list, so no run is started.
InitMonitor ==
  /\ Init
  /\ ValidStepConfigurations
  /\ ValidTriggerConfigs
  /\ inbox = 0
  /\ integrations \subseteq {"gmail"}

NextMonitor ==
  \/ \E w \in Workflows, b \in BOOLEAN : update_workflow_status(w, b)
  \/ start_monitoring
  \/ stop_monitoring
  \/ Tick
  \/ \E t \in TaskIds : TaskBegin(t)
  \/ \E t \in TaskIds : TaskPollReturn(t, 0)
  \/ \E t \in TaskIds : TaskWake(t)
  \/ \E t \in TaskIds : CancelDelivered(t)

SpecMonitor == InitMonitor /\ [][NextMonitor]_vars

\* The polling tasks with mail arriving, the workflows left as they are in
\* the store and the monitor left running.
InitPoll ==
  /\ Init
  /\ ValidStepConfigurations
  /\ ValidTriggerConfigs
  /\ inbox > 0
  /\ "gmail" \in integrations

NextPoll ==
  \/ start_monitoring
  \/ Tick
  \/ \E t \in TaskIds : TaskBegin(t)
  \/ \E t \in TaskIds, n \in 0..MaxEvents : TaskPollReturn(t, n)
  \/ \E t \in TaskIds : TaskStartRun(t)
  \/ \E t \in TaskIds : TaskEndTick(t)
  \/ \E t \in TaskIds : TaskWake(t)
  \/ \E r \in RunIds, o \in {"ok", "fail", "raise"} : RunStepReturn(r, o)

SpecPoll == InitPoll /\ [][NextPoll]_vars

\* One active workflow (the two-step w1) with one matching email: its
\* polling task is started, stopped and started again while the run of the
\* email is in flight.
InitCancel ==
  /\ Init
  /\ ValidStepConfigurations
  /\ ValidTriggerConfigs
  /\ inbox = 1
  /\ integrations = Services
  /\ wf_is_active = [w \in Workflows |-> w = "w1"]

NextCancel ==
  \/ start_monitoring
  \/ stop_monitoring
  \/ Tick
  \/ \E t \in TaskIds : TaskBegin(t)
  \/ \E t \in TaskIds, n \in 0..MaxEvents : TaskPollReturn(t, n)
  \/ \E t \in TaskIds : TaskStartRun(t)
  \/ \E t \in TaskIds : TaskEndTick(t)
  \/ \E t \in TaskIds : TaskWake(t)
  \/ \E t \in TaskIds : CancelDelivered(t)
  \/ \E r \in RunIds, o \in {"ok", "fail", "raise"} : RunStepReturn(r, o)

\* The event loop runs every coroutine that is ready: an adapter call that
\* can return does return, a requested cancellation is delivered, a task
\* that can go on does.  Starting and stopping the monitor is up to the
\* caller.
FairCancel ==
  /\ \A r \in RunIds :
       WF_vars(\E o \in {"ok", "fail", "raise"} : RunStepReturn(r, o))
  /\ \A t \in TaskIds : WF_vars(CancelDelivered(t))
  /\ \A t \in TaskIds : WF_vars(TaskStartRun(t))
  /\ \A t \in TaskIds : WF_vars(TaskEndTick(t))
  /\ \A t \in TaskIds : WF_vars(TaskBegin(t))
  /\ \A t \in TaskIds : WF_vars(TaskPollReturn(t, 0))
  /\ \A t \in TaskIds : WF_vars(TaskWake(t))
  /\ WF_vars(Tick)

SpecCancel == InitCancel /\ [][NextCancel]_vars /\ FairCancel

\* The running monitor and its polling tasks, the trigger configuration of
\* w2 of every kind, while workflows are activated and paused; no matching
\* email arrives.
InitReconcile ==
  /\ Init
  /\ ValidStepConfigurations
  /\ inbox = 0
  /\ integrations = {"gmail"}
  /\ trigger_config["w1"] = "dict"

NextReconcile ==
  \/ \E w \in Workflows, b \in BOOLEAN : update_workflow_status(w, b)
  \/ start_monitoring
  \/ Tick
  \/ \E t \in TaskIds : TaskBegin(t)
  \/ \E t \in TaskIds : TaskPollReturn(t, 0)
  \/ \E t \in TaskIds : TaskWake(t)

\* The event loop runs the monitoring loop, whose sleep(30) ends, and every
\* task that is ready.  What the callers do to the rows and to the monitor
\* is up to them.
FairReconcile ==
  /\ WF_vars(Tick)
  /\ \A t \in TaskIds : WF_vars(TaskBegin(t))
  /\ \A t \in TaskIds : WF_vars(TaskPollReturn(t, 0))
  /\ \A t \in TaskIds : WF_vars(TaskWake(t))

SpecReconcile == InitReconcile /\ [][NextReconcile]_vars /\ FairReconcile

\* One active workflow with mail arriving while the process is restarted and
\* the monitor is started again, never stopped.
InitRestart ==
  /\ Init
  /\ ValidStepConfigurations
  /\ ValidTriggerConfigs
  /\ inbox > 0
  /\ integrations = Services
  /\ wf_is_active = [w \in Workflows |-> w = "w1"]

NextRestart ==
  \/ start_monitoring
  \/ Restart
  \/ Tick
  \/ \E t \in TaskIds : TaskBegin(t)
  \/ \E t \in TaskIds, n \in 0..MaxEvents : TaskPollReturn(t, n)
  \/ \E t \in TaskIds : TaskStartRun(t)
  \/ \E t \in TaskIds : TaskEndTick(t)
  \/ \E t \in TaskIds : TaskWake(t)
  \/ \E r \in RunIds, o \in {"ok", "fail", "raise"} : RunStepReturn(r, o)

SpecRestart == InitRestart /\ [][NextRestart]_vars

\* The first tick of the polling task of one workflow with one matching
\* email, and forced runs, while workflows are deleted from the store; the
\* monitor is left running.
InitDelete ==
  /\ Init
  /\ ValidStepConfigurations
  /\ ValidTriggerConfigs
  /\ inbox = 1
  /\ integrations = Services
  /\ wf_is_active = [w \in Workflows |-> w = "w2"]

NextDelete ==
  \/ \E w \in Workflows : delete_workflow(w)
  \/ \E w \in Workflows : force_execute_workflow(w)
  \/ start_monitoring
  \/ Tick
  \/ \E t \in TaskIds : TaskBegin(t)
  \/ \E t \in TaskIds, n \in 0..MaxEvents : TaskPollReturn(t, n)
  \/ \E t \in TaskIds : TaskStartRun(t)
  \/ \E r \in RunIds, o \in {"ok", "fail", "raise"} : RunStepReturn(r, o)

SpecDelete == InitDelete /\ [][NextDelete]_vars

\* The polling tasks over every kind of stored trigger configuration, with
\* ticks that raise, no matching email and the monitor left running.
InitBackoff ==
  /\ Init
  /\ ValidStepConfigurations
  /\ inbox = 0
  /\ integrations = {"gmail"}

NextBackoff ==
  \/ start_monitoring
  \/ Tick
  \/ \E t \in TaskIds : TaskBegin(t)
  \/ \E t \in TaskIds : TaskPollReturn(t, 0)
  \/ \E t \in TaskIds : TaskTickError(t)
  \/ \E t \in TaskIds : TaskWake(t)

\* the event loop runs the monitoring loop and every task that is ready; a
\* tick that raises is not bound to happen
FairBackoff ==
  /\ WF_vars(Tick)
  /\ \A t \in TaskIds : WF_vars(TaskBegin(t))
  /\ \A t \in TaskIds : WF_vars(TaskPollReturn(t, 0))
  /\ \A t \in TaskIds : WF_vars(TaskWake(t))

SpecBackoff == InitBackoff /\ [][NextBackoff]_vars /\ FairBackoff

\* The polling task of one workflow (the one-step w2) while time passes:
\* ticks with and without events, ticks that raise.
InitSince ==
  /\ Init
  /\ ValidStepConfigurations
  /\ ValidTriggerConfigs
  /\ integrations = Services
  /\ wf_is_active = [w \in Workflows |-> w = "w2"]

NextSince ==
  \/ start_monitoring
  \/ Tick
  \/ ClockTick
  \/ \E t \in TaskIds : TaskBegin(t)
  \/ \E t \in TaskIds, n \in 0..MaxEvents : TaskPollReturn(t, n)
  \/ \E t \in TaskIds : TaskStartRun(t)
  \/ \E t \in TaskIds : TaskEndTick(t)
  \/ \E t \in TaskIds : TaskTickError(t)
  \/ \E t \in TaskIds : TaskWake(t)
  \/ \E r \in RunIds, o \in {"ok", "fail", "raise"} : RunStepReturn(r, o)

SpecSince == InitSince /\ [][NextSince]_vars

\* The polling task of one workflow (the one-step w2) while time passes and
\* matching emails arrive at the mailbox.
InitArrival ==
  /\ Init
  /\ ValidStepConfigurations
  /\ ValidTriggerConfigs
  /\ inbox = 0
  /\ integrations = Services
  /\ wf_is_active = [w \in Workflows |-> w = "w2"]

NextArrival ==
  \/ start_monitoring
  \/ Tick
  \/ ClockTick
  \/ email_arrives
  \/ \E t \in TaskIds : TaskBegin(t)
  \/ \E t \in TaskIds : TaskPollReturn(t, 0)
  \/ \E t \in TaskIds : TaskStartRun(t)
  \/ \E t \in TaskIds : TaskEndTick(t)
  \/ \E t \in TaskIds : TaskWake(t)
  \/ \E r \in RunIds, o \in {"ok", "fail", "raise"} : RunStepReturn(r, o)

SpecArrival == InitArrival /\ [][NextArrival]_vars

\* The pipelines of one workflow followed value by value: the engine is
\* idle, the steps are read once and each email gets its execute_workflow.
InitTemplate ==
  /\ Init
  /\ ValidStepConfigurations
  /\ ValidTriggerConfigs
  /\ inbox = 0
  /\ integrations = Services
  /\ wf_is_active = [w \in Workflows |-> FALSE]

NextTemplate ==
  \/ \E template \in Templates : fetch_steps(template)
  \/ \E p \in PipelineIds : \E email \in Emails(p) : execute_workflow(p, email)
  \/ \E p \in PipelineIds, raised \in BOOLEAN : step_returns(p, raised)

SpecTemplate == InitTemplate /\ [][NextTemplate]_vars

\* The polling task of one workflow (the one-step w2) with one matching
\* email, while the configuration of its steps is updated in the store; the
\* step of w2 starts with a configuration that is a list.
InitUpdate ==
  /\ Init
  /\ ValidTriggerConfigs
  /\ stored_configuration =
       [w \in Workflows |->
          [k \in 1..NumActionSteps(w) |-> IF w = "w2" THEN "list" ELSE "dict"]]
  /\ inbox = 1
  /\ integrations = Services
  /\ wf_is_active = [w \in Workflows |-> w = "w2"]

NextUpdate ==
  \/ \E k \in 0..NumActionSteps("w2") : update_workflow_step("w2", k)
  \/ start_monitoring
  \/ Tick
  \/ \E t \in TaskIds : TaskBegin(t)
  \/ \E t \in TaskIds, n \in 0..1 : TaskPollReturn(t, n)
  \/ \E t \in TaskIds : TaskStartRun(t)
  \/ \E t \in TaskIds : TaskEndTick(t)
  \/ \E t \in TaskIds : TaskWake(t)
  \/ \E r \in RunIds, o \in {"ok", "fail", "raise"} : RunStepReturn(r, o)

SpecUpdate == InitUpdate /\ [][NextUpdate]_vars

\* The executor over every kind of stored step configuration, the runs
\* requested one after the other.
InitConfig ==
  /\ Init
  /\ ValidTriggerConfigs
  /\ inbox = 0
  /\ integrations = Services
  /\ wf_is_active = [w \in Workflows |-> FALSE]

NextConfig ==
  \/ /\ \A r \in RunIds : runs[r].pc # "awaiting"
     /\ \E w \in Workflows : force_execute_workflow(w)
  \/ \E r \in RunIds, o \in {"ok", "fail", "raise"} : RunStepReturn(r, o)

SpecConfig == InitConfig /\ [][NextConfig]_vars

\* One run of the execution graph, for every set of integration rows.
InitGraph ==
  /\ Init
  /\ ValidStepConfigurations
  /\ ValidTriggerConfigs
  /\ inbox = 0
  /\ wf_is_active = [w \in Workflows |-> FALSE]

NextGraph ==
  \/ \E n \in 0..MaxZapSteps : execute_zap_workflow(n)
  \/ \E raised \in BOOLEAN : fetch_zap_config(raised)
  \/ \E raised \in BOOLEAN : prepare_execution_context(raised)
  \/ \E raised \in BOOLEAN : execute_workflow_step(raised)
  \/ \E o \in {"ok", "fail", "raise"} : tool_returns(o)
  \/ handle_ai_processing
  \/ \E raised \in BOOLEAN : handle_error(raised)
  \/ \E raised \in BOOLEAN : finalize_execution(raised)

SpecGraph == InitGraph /\ [][NextGraph]_vars

\* ainvoke runs the graph node after node, and the tool of a step returns
FairGraph ==
  /\ WF_vars(\E raised \in BOOLEAN : fetch_zap_config(raised))
  /\ WF_vars(\E raised \in BOOLEAN : prepare_execution_context(raised))
  /\ WF_vars(\E raised \in BOOLEAN : execute_workflow_step(raised))
  /\ WF_vars(\E o \in {"ok", "fail", "raise"} : tool_returns(o))
  /\ WF_vars(handle_ai_processing)
  /\ WF_vars(\E raised \in BOOLEAN : handle_error(raised))
  /\ WF_vars(\E raised \in BOOLEAN : finalize_execution(raised))

\* One run of the execution graph with every node and every tool returning.
SpecGraphFair == InitGraph /\ [][NextGraph]_vars /\ FairGraph

\* what the n-th of the earlier calls logged: the workflows and the users
\* take turns
EarlierEntry(n) ==
  log_entry(n, IF n % 2 = 0 THEN "w1" ELSE "w2",
               IF (n \div 2) % 2 = 0 THEN "u1" ELSE "u2")

\* The execution log alone: a monitor whose log is empty, or has been filled
\* by earlier calls up to the cap, then any _log_execution and
\* get_execution_logs calls.
InitLog ==
  /\ InitButLogs
  /\ ValidStepConfigurations
  /\ ValidTriggerConfigs
  /\ inbox = 0
  /\ integrations = Services
  /\ wf_is_active = [w \in Workflows |-> FALSE]
  /\ returned_logs = NoReturnedLogs
  /\ \E len \in {0, LogCap - 1, LogCap}, trimmed \in 0..1 :
       /\ trimmed = 1 => len = LogCap
       /\ log_count = trimmed + len
       /\ execution_logs = [i \in 1..len |-> EarlierEntry(trimmed + i)]

NextLog ==
  \/ \E w \in Workflows, u \in LogUsers : _log_execution(w, u)
  \/ \E w \in Workflows \cup {"none"}, u \in LogUsers \cup {"none"},
        limit \in 0..MaxLimit : get_execution_logs(w, u, limit)

SpecLog == InitLog /\ [][NextLog]_vars

\* =================================================================
\* Properties
\* =================================================================
Started(r) == runs[r].pc # "none"
Finished(x) == executions[x].status \in {"completed", "failed"}
MaxRetriesOf(r, k) == ActionSteps(runs[r].workflow)[k].max_retries
StepsOf(r) == 1..NumActionSteps(runs[r].workflow)
ResultSteps(x) == {executions[x].step_results[i].step : i \in DOMAIN executions[x].step_results}

\* C1 -- Counter consistency: whenever every run that was started has
\* finished (and the store accepted the execution row of each), each
\* workflow's total_executions equals the number of its finished execution
\* rows, and successful_executions + failed_executions equals
\* total_executions.
C1_CounterConsistency ==
  (\A r \in RunIds : runs[r].pc # "awaiting" /\ (Started(r) => runs[r].created)) =>
    \A w \in Workflows :
      /\ total_executions[w] =
           Cardinality({x \in RunIds : executions[x].workflow = w /\ Finished(x)})
      /\ successful_executions[w] + failed_executions[w] = total_executions[w]

\* C2 -- Sequencing: once step k of a run has been recorded as failed, no
\* adapter has been invoked and no StepResult exists for a step after k.
C2_Sequencing ==
  \A r \in RunIds :
    Started(r) /\ executions[r].error_step_id # 0 =>
      \A j \in StepsOf(r) :
        j > executions[r].error_step_id =>
          runs[r].invoked[j] = 0 /\ j \notin ResultSteps(r)

\* a two-step run whose first step failed and which has ended
C2_Witness ==
  \E r \in RunIds :
    /\ Started(r) /\ NumActionSteps(runs[r].workflow) = 2
    /\ executions[r].error_step_id = 1
    /\ executions[r].status = "failed"
    /\ runs[r].invoked = << 1, 0 >>

\* C3 -- a StepResult is completed only for an invocation that reported
\* success = true, and a run is completed only if each of its steps has
\* such a result.
C3_CompletedOnlyOnSuccess ==
  \A x \in RunIds :
    /\ \A i \in DOMAIN executions[x].step_results :
         executions[x].step_results[i].status = "completed"
           => executions[x].step_results[i].success
    /\ executions[x].status = "completed" =>
         \A k \in StepsOf(x) :
           \E i \in DOMAIN executions[x].step_results :
             /\ executions[x].step_results[i].step = k
             /\ executions[x].step_results[i].success

\* C4 -- Retry on failure: a run is failed by step k only after the
\* adapter of step k was invoked again for each of its max_retries retries
\* (max_retries + 1 invocations in all).
C4_RetryBeforeFail ==
  \A r \in RunIds :
    Started(r) /\ executions[r].status = "failed" /\ executions[r].error_step_id # 0 =>
      runs[r].invoked[executions[r].error_step_id]
        = MaxRetriesOf(r, executions[r].error_step_id) + 1

\* C5 -- Retry bound: in every run, the adapter of a step with
\* max_retries = r has been invoked at most r + 1 times.
C5_RetryBound ==
  \A r \in RunIds :
    Started(r) => \A k \in StepsOf(r) : runs[r].invoked[k] <= MaxRetriesOf(r, k) + 1

\* a step that was invoked and marked failed
C5_Witness ==
  \E r \in RunIds :
    /\ Started(r)
    /\ executions[r].failed_steps = 1
    /\ executions[r].error_step_id # 0
    /\ runs[r].invoked[executions[r].error_step_id] = 1
    /\ executions[r].status = "failed"

MissingServices(w) ==
  {ActionSteps(w)[k].service : k \in 1..NumActionSteps(w)} \ integrations

\* C6 -- All-or-nothing validation: a run of a workflow with an action
\* step whose service the owner has no credentials for invokes no adapter,
\* records no StepResult, and ends failed with the missing-integration
\* error.
C6_AllOrNothingValidation ==
  \A r \in RunIds :
    Started(r) /\ runs[r].created /\ MissingServices(runs[r].workflow) # {} =>
      /\ \A k \in StepsOf(r) : runs[r].invoked[k] = 0
      /\ executions[r].step_results = << >>
      /\ runs[r].pc = "returned" =>
           /\ executions[r].status = "failed"
           /\ executions[r].error_message = "missing_integration"

PollIssued(t) == tasks[t].pc # "polling" /\ tasks'[t].pc = "polling"
TaskCreated(t) == tasks[t].pc = "none" /\ tasks'[t].pc = "created"

\* C7 -- a polling task is started only for a workflow whose status is
\* active, and a trigger poll is issued only while the status of the
\* workflow is active.
C7_NeverPollInactive ==
  [][\A t \in TaskIds :
       PollIssued(t) \/ TaskCreated(t) => wf_status[tasks'[t].workflow] = "active"]_vars

Live(t) == tasks[t].pc \in {"created", "polling", "processing", "sleeping", "backoff"}
             /\ ~tasks[t].cancel

\* C8 -- Stopping on deactivation: a reconciliation tick that finds a
\* live polling task registered for a workflow that is no longer active
\* cancels the task and removes the id from running_workflows.
C8_StopOnDeactivation ==
  [][Tick =>
       \A w \in Workflows :
         running_workflows[w] # 0 /\ Live(running_workflows[w]) /\ ~IsActiveRow(w)
           => /\ running_workflows'[w] = 0
              /\ ~(tasks'[running_workflows[w]].workflow = w
                    /\ tasks'[running_workflows[w]].pc
                         \in {"created", "polling", "processing", "sleeping"}
                    /\ ~tasks'[running_workflows[w]].cancel)]_vars

LiveTasksOf(w) == {t \in TaskIds : tasks[t].workflow = w /\ Live(t)}

C11_InFlightRunsComplete ==
  \A r \in RunIds : (runs[r].pc = "awaiting") ~> Finished(r)

\* the literal texts in a string
LitsOf(s) == {s[i].field : i \in {j \in DOMAIN s : s[j].ns = "lit"}}

\* the texts that come from the stored templates, from the email of
\* pipeline p and from the results of its own steps
OwnTexts(p) ==
  {"Re: ", "10", Subjects[p], Bodies[p]}
    \cup {ResultReprs[p][k] : k \in 1..NumActionSteps("w1")}

ConfigKeys == DOMAIN StepConfig(<< >>)

\* C12 -- Isolation: under any interleaving of the pipeline runs of one
\* workflow on different emails, the RunContext of each run holds the
\* trigger data of its own email and the outputs of its own steps only, and
\* every configuration the run resolved is made of its own values only.
C12_Isolation ==
  \A p \in PipelineIds :
    pipelines[p].pc # "none" =>
      LET c == contexts[ContextOf(p)]
      IN /\ c.trigger_data = pipelines[p].trigger_data
         /\ \A i \in DOMAIN c.step_outputs :
              c.step_outputs[i] = [key |-> StepOrderKey(i),
                                   value |-> DictValue(ResultReprs[p][i])]
         /\ \A i \in DOMAIN pipelines[p].resolved, key \in ConfigKeys :
              LitsOf(pipelines[p].resolved[i][key].val) \subseteq OwnTexts(p)

\* two runs in flight side by side, each having resolved its own subject,
\* the first one already with the output of its first step
C12_Witness ==
  /\ pipelines[1].pc = "awaiting" /\ pipelines[1].step = 2
  /\ pipelines[2].pc = "awaiting" /\ pipelines[2].step = 1
  /\ Len(contexts[ContextOf(1)].step_outputs) = 1
  /\ Subjects[1] \in LitsOf(pipelines[1].resolved[2].title_template.val)
  /\ Subjects[2] \in LitsOf(pipelines[2].resolved[1].title_template.val)

RunFailed(r) == executions[r].status = "running" /\ executions'[r].status = "failed"
Polling(t) == tasks[t].pc \in {"polling", "processing", "sleeping", "backoff"}

\* C13 -- Failure isolation: the step that fails a run leaves every
\* polling task and the monitor as they were; the task that awaited the run
\* can go on with the next event of the tick or end the tick, a task that
\* sleeps after a tick polls again when it wakes up, and no task that
\* polls ever ends while monitoring is active.
C13_FailureIsolation ==
  /\ [][\A r \in RunIds :
          RunFailed(r) => tasks' = tasks /\ monitor_vars' = monitor_vars]_vars
  /\ [][\A t \in TaskIds :
          Polling(t) /\ monitoring_active => Polling(t)' /\ ~tasks'[t].cancel]_vars
  /\ [](\A t \in TaskIds :
          /\ tasks[t].pc = "processing" /\ InFlight(t) = {} /\ tasks[t].pending > 0
               => ENABLED TaskStartRun(t)
          /\ tasks[t].pc = "processing" /\ InFlight(t) = {} /\ tasks[t].pending = 0
               => ENABLED TaskEndTick(t)
          /\ tasks[t].pc = "sleeping" /\ monitoring_active
               => ENABLED (TaskWake(t) /\ tasks'[t].pc = "polling"))

\* the run of the first event of a tick has failed, the run of the second
\* event of the same tick is in flight, and the task of the other workflow
\* is polling
C13_Witness ==
  \E t, u \in TaskIds, r, q \in RunIds :
    /\ tasks[t].pc = "processing" /\ tasks[t].events = 2
    /\ runs[r].task = t /\ runs[r].event = 1 /\ executions[r].status = "failed"
    /\ runs[q].task = t /\ runs[q].event = 2 /\ runs[q].pc = "awaiting"
    /\ u # t /\ Polling(u) /\ tasks[u].workflow # tasks[t].workflow

\* C14 -- a polling task does not terminate on a failed tick: after a tick
\* of the task has ended in an error (anything but cancellation) the task
\* polls again.
C14_PollsAgainAfterFailedTick ==
  \A t \in TaskIds : (tasks[t].error # "none") ~> (tasks[t].pc = "polling")

TickCompleted(t) ==
  tasks[t].pc \in {"polling", "processing"} /\ tasks'[t].pc = "sleeping"

\* C15 -- the step that completes a tick, with or without events, sets
\* last_check to the current time; the first poll of a task is issued with
\* since = now - 24 h and every later poll with the last_check the task
\* holds, which is the time its last completed tick ended; last_check,
\* and so since, never decreases while the task polls.
C15_SinceAdvances ==
  [][\A t \in TaskIds :
       /\ TickCompleted(t) => tasks'[t].last_check = now
       /\ PollIssued(t) =>
            /\ tasks'[t].since = tasks'[t].last_check
            /\ tasks'[t].last_check =
                 IF tasks[t].pc = "created" THEN now - Lookback
                 ELSE tasks[t].last_check
       /\ Polling(t) /\ Polling(t)' => tasks'[t].last_check >= tasks[t].last_check]_vars

\* a later poll issued with the time the previous tick ended, after which
\* time has passed
C15_Witness ==
  \E t \in TaskIds :
    tasks[t].pc = "polling" /\ tasks[t].since = 1 /\ now = 2

TokensOf(s) == {s[i] : i \in DOMAIN s}
FieldsOf(items) == {items[i].key : i \in DOMAIN items}
ScenarioATemplate == << Lit("Re: "), Placeholder("trigger", "subject") >>

\* C16 -- in every configuration passed to an adapter no placeholder
\* {{trigger.<field>}} of a field of the run's email and no placeholder
\* {{steps.<order>.<field>}} of an earlier step of the run is left, and the
\* template "Re: {{trigger.subject}}" has become "Re: " followed by the
\* subject of the email.
C16_PlaceholdersResolved ==
  \A p \in PipelineIds : \A i \in DOMAIN pipelines[p].resolved :
    LET title == pipelines[p].resolved[i].title_template.val
    IN /\ \A f \in FieldsOf(pipelines[p].trigger_data) :
            Placeholder("trigger", f) \notin TokensOf(title)
       /\ i > 1 => Placeholder("steps", "2.page_id") \notin TokensOf(title)
       /\ step_configuration[i].title_template.val = ScenarioATemplate
            => title = << Lit("Re: "), Lit(Subjects[p]) >>

HasPlaceholder(v) == \E i \in DOMAIN v.val : v.val[i].ns # "lit"

\* C17 -- Template idempotence: for every stored configuration value v and
\* every context c of a run, resolving v with c returns v when v holds no
\* placeholder, and resolving the result again with c returns the result.
C17_Idempotent ==
  \A p \in PipelineIds :
    pipelines[p].pc # "none" =>
      \A k \in DOMAIN step_configuration, key \in ConfigKeys :
        LET v == step_configuration[k][key]
            c == Context(contexts[ContextOf(p)])
        IN /\ ~HasPlaceholder(v) => ResolvedValue(v, c) = v
           /\ ResolvedValue(ResolvedValue(v, c), c) = ResolvedValue(v, c)

\* C18 -- resolving never changes the stored configuration of a step:
\* once the steps are read, no adapter call that is prepared, returns or
\* raises alters step_configuration, so every run resolves from the
\* templates as they are stored.
C18_StoredConfigurationKept ==
  [][step_configuration # << >> => step_configuration' = step_configuration]_vars

\* two runs that used the same step one after the other: each resolved the
\* stored template into its own subject, and the template is still stored
C18_Witness ==
  /\ pipelines[1].pc = "completed"
  /\ pipelines[2].pc = "awaiting"
  /\ Placeholder("trigger_data", "subject")
       \in TokensOf(step_configuration[1].title_template.val)
  /\ Lit(Subjects[1]) \in TokensOf(pipelines[1].resolved[1].title_template.val)
  /\ Lit(Subjects[2]) \in TokensOf(pipelines[2].resolved[1].title_template.val)

\* a placeholder of the template that names nothing in the context step i
\* of pipeline p is resolved with
Unmatched(token, p, i) ==
  /\ token.ns # "lit"
  /\ ~(token.ns = "trigger_data" /\ token.field \in FieldsOf(pipelines[p].trigger_data))
  /\ ~(token.ns = "step_outputs" /\ token.field \in {StepOrderKey(j) : j \in 1..(i - 1)})

\* C19 -- Template resolution is lenient: every step that was prepared got
\* its resolved configuration (resolution did not raise), the placeholders
\* whose namespace or field is absent from the context stand in the result
\* as they stood in the template, and the values that are not strings
\* reach the adapter unchanged.
C19_LenientResolution ==
  \A p \in PipelineIds :
    /\ pipelines[p].pc # "none" => Len(pipelines[p].resolved) = pipelines[p].step
    /\ \A i \in DOMAIN pipelines[p].resolved :
         LET IsUnmatched(token) == Unmatched(token, p, i)
         IN /\ DOMAIN pipelines[p].resolved[i] = ConfigKeys
            /\ SelectSeq(pipelines[p].resolved[i].title_template.val, IsUnmatched)
                 = SelectSeq(step_configuration[i].title_template.val, IsUnmatched)
            /\ pipelines[p].resolved[i].max_results = step_configuration[i].max_results

\* the second step of a run was prepared from a template with a placeholder
\* that names nothing and one that names the output of the first step
C19_Witness ==
  \E p \in PipelineIds :
    /\ pipelines[p].step = 2
    /\ step_configuration[2].title_template.val
         = << Placeholder("steps", "2.page_id"), Placeholder("step_outputs", "2") >>
    /\ pipelines[p].resolved[2].title_template.val
         = << Placeholder("steps", "2.page_id"), Lit(ResultReprs[p][1]) >>
    /\ pipelines[p].resolved[2].max_results = IntValue("10")

ExecutionCreated(x) == executions[x].status = "none" /\ executions'[x].status # "none"

\* C20 -- create_execution: the step that creates the execution row of a
\* run leaves it with status running, no completed and no failed step, an
\* empty StepResult list and total_steps equal to the number of action
\* steps of the workflow (the trigger step is not counted).
C20_CreateExecution ==
  [][\A x \in RunIds :
       ExecutionCreated(x) =>
         /\ executions'[x].status = "running"
         /\ executions'[x].completed_steps = 0
         /\ executions'[x].failed_steps = 0
         /\ executions'[x].step_results = << >>
         /\ executions'[x].total_steps = NumActionSteps(executions'[x].workflow)]_vars

\* the steps of run x whose adapter call has returned or raised
ExecutedSteps(x) ==
  {k \in StepsOf(x) : k < runs[x].step \/ (k = runs[x].step /\ runs[x].pc = "returned")}

\* C21 -- every log_execution_step call, completed or failed, appends one
\* StepResult and increments the matching counter: the number of StepResult
\* entries of an execution equals completed_steps + failed_steps, and each
\* executed step has exactly one entry.
C21_OneResultPerLoggedStep ==
  \A x \in RunIds :
    Started(x) /\ runs[x].created =>
      /\ Len(executions[x].step_results)
           = executions[x].completed_steps + executions[x].failed_steps
      /\ \A k \in ExecutedSteps(x) :
           Cardinality({i \in DOMAIN executions[x].step_results :
                          executions[x].step_results[i].step = k}) = 1

Finalized(x) == executions[x].status = "running" /\ Finished(x)'

\* C22 -- each execution row is finalized exactly once: the step that takes
\* its status from running to completed or failed stamps completed_at, and
\* once the row is completed or failed no later step changes its status, its
\* completed_at or its StepResult list.
C22_FinalizedOnce ==
  [][\A x \in RunIds :
       /\ Finalized(x) => executions'[x].completed_at = now
       /\ Finished(x) =>
            /\ executions'[x].status = executions[x].status
            /\ executions'[x].completed_at = executions[x].completed_at
            /\ executions'[x].step_results = executions[x].step_results]_vars

\* a run completed with the result of its two steps, another run failed
\* later, and time has passed since
C22_Witness ==
  \E x, y \in RunIds :
    /\ executions[x].status = "completed" /\ Len(executions[x].step_results) = 2
    /\ executions[y].status = "failed"
    /\ executions[x].completed_at < executions[y].completed_at
    /\ executions[y].completed_at < now

InvokedCount(run, k) == IF k \in DOMAIN run.invoked THEN run.invoked[k] ELSE 0
StepInvoked(r, k) == InvokedCount(runs'[r], k) > InvokedCount(runs[r], k)

Abandoned(x) == executions[x].status = "running" /\ runs[x].pc = "aborted"

\* C24 -- Restart reconciliation: after a restart, every execution row that
\* was left in status running has been set to failed with reason
\* "interrupted" by the time a polling task issues a poll.
C24_ReconciledBeforePolling ==
  [][\A t \in TaskIds :
       PollIssued(t) =>
         \A x \in RunIds :
           /\ ~Abandoned(x)'
           /\ runs'[x].pc = "aborted" =>
                /\ executions'[x].status = "failed"
                /\ executions'[x].error_message = "interrupted"]_vars

RunRequested(r) == runs[r].pc = "none" /\ runs'[r].pc # "none"

\* C25 -- a run requested (by a polling task through execute_workflow_steps
\* or by force_execute_workflow) for a workflow id that is not in the store
\* returns at once with the workflow-not-found error: no execution row is
\* created, no adapter is invoked then or later, and the counters of every
\* workflow are left as they were.
C25_MissingWorkflow ==
  /\ [][\A r \in RunIds :
          RunRequested(r) /\ wf_status[runs'[r].workflow] = "none" =>
            /\ runs'[r].pc = "returned"
            /\ runs'[r].error = "workflow_not_found"
            /\ executions' = executions
            /\ counters' = counters]_vars
  /\ [](\A r \in RunIds :
          runs[r].error = "workflow_not_found" =>
            /\ runs[r].pc = "returned"
            /\ \A k \in DOMAIN runs[r].invoked : runs[r].invoked[k] = 0
            /\ executions[r].status = "none")

\* a polling task whose workflow was deleted got the error for the email
\* it polled, and a forced run of the other workflow is at its adapter
C25_Witness ==
  \E r, q \in RunIds :
    /\ runs[r].error = "workflow_not_found" /\ runs[r].task # 0
    /\ tasks[runs[r].task].pc = "processing"
    /\ runs[q].task = 0 /\ runs[q].pc = "awaiting"
    /\ total_executions[runs[q].workflow] > 0

ZapSteps == 1..MaxZapSteps
ToolInvoked(k) == graph.node = "execute_step" /\ graph'.invoked[k] > graph.invoked[k]
Succeeded(state, j) ==
  \E i \in DOMAIN state.step_results :
    state.step_results[i].step = j /\ state.step_results[i].success

FailureLogged(x) ==
  log_execution_step(executions[x], executions[x].error_step_id, "failed", "none")

\* C29 -- First failure wins: an execution that names a failed step holds
\* the error_message the failed log_execution_step of that step has set,
\* also after the update_execution_status that finalizes the run, and once
\* set neither error_message nor error_step_id is changed by a later step.
C29_FirstFailureWins ==
  /\ [](\A x \in RunIds :
          executions[x].error_step_id # 0 =>
            executions[x].error_message = FailureLogged(x).error_message)
  /\ [][\A x \in RunIds :
          executions[x].error_step_id # 0 =>
            /\ executions'[x].error_message = executions[x].error_message
            /\ executions'[x].error_step_id = executions[x].error_step_id]_vars

\* a run failed by its second step has been finalized and still names the
\* step and its error, while a later run has gone on
C29_Witness ==
  \E x, y \in RunIds :
    /\ executions[x].status = "failed" /\ executions[x].error_step_id = 2
    /\ executions[x].error_message = "step_error"
    /\ executions[x].completed_steps = 1 /\ executions[x].failed_steps = 1
    /\ y > x /\ executions[y].status = "completed"

InvalidConfigurations == {"text", "list"}

\* C30 -- a step whose stored configuration is a string that is not JSON
\* or a value that is not a map fails the run at once: the adapter of that
\* step is never invoked, and the run that reached the step is failed by
\* it.
C30_InvalidConfigurationFailsRun ==
  \A r \in RunIds : \A k \in DOMAIN runs[r].invoked :
    runs[r].steps[k] \in InvalidConfigurations =>
      /\ runs[r].invoked[k] = 0
      /\ runs[r].step >= k =>
           /\ executions[r].status = "failed"
           /\ executions[r].error_step_id = k

\* run r enters execute_workflow_steps with the row of its workflow found
RunStarts(r) == runs[r].pc = "none" /\ runs'[r].pc # "none" /\ runs'[r].created

\* C31 -- every run executes the step list as it is in the store when the
\* run starts, and every poll is issued with the trigger configuration as it
\* is in the store at that tick, also after a change made while the polling
\* task is live.
C31_RunsUseStoredSteps ==
  [][/\ \A r \in RunIds :
         RunStarts(r) => runs'[r].steps = stored_configuration[runs'[r].workflow]
     /\ \A t \in TaskIds :
         tasks[t].pc # "polling" /\ tasks'[t].pc = "polling"
           => tasks'[t].trigger = trigger_config[tasks'[t].workflow]]_vars

\* the workflow has an entry in the live set whose task has not terminated
HasPollingTask(w) ==
  /\ running_workflows[w] # 0
  /\ tasks[running_workflows[w]].workflow = w
  /\ tasks[running_workflows[w]].pc # "done"

\* C32 -- while monitoring stays active, a workflow that stays active
\* eventually has a polling task: a tick starts one for an active id that
\* is not in the live set, and an entry whose task has terminated is removed
\* so that a later tick starts a new task.
C32_ActiveWorkflowGetsTask ==
  \A w \in Workflows :
    (monitoring_active /\ IsActiveRow(w))
      ~> (HasPollingTask(w) \/ ~monitoring_active \/ ~IsActiveRow(w))

\* the task of an active workflow has terminated and is still in the live
\* set of the running monitor
C32_Witness ==
  \E w \in Workflows :
    /\ monitoring_active
    /\ IsActiveRow(w)
    /\ running_workflows[w] # 0
    /\ tasks[running_workflows[w]].pc = "done"

\* C33 -- execute_workflow_steps reports success only for a run whose
\* execution record finished with status completed; a run in which a step
\* failed is reported without success.
C33_SuccessOnlyWhenCompleted ==
  \A r \in RunIds :
    runs[r].pc = "returned" /\ runs[r].created /\ runs[r].success
      => executions[r].status = "completed"

\* C34 -- the execution_id execute_workflow_steps returns, which the monitor
\* attaches to its log entries, is the id of the execution record created
\* in the store for the run.
C34_ReturnedIdIsRecordId ==
  \A r \in RunIds :
    runs[r].pc = "returned" /\ runs[r].success /\ executions[r].status # "none"
      => runs[r].execution_id = executions[r].id

\* C35 -- a live polling task loses no qualifying event: when a tick is over
\* and since has been advanced, every email the task has not got yet, also
\* one that arrived while the runs of the tick executed or during a poll
\* that failed inside the adapter, is inside the window of the next poll.
C35_NoEventLost ==
  \A t \in TaskIds :
    tasks[t].pc = "sleeping" =>
      \A e \in mailbox :
        tasks[t].workflow \notin e.seen => e.time >= tasks[t].last_check

RECURSIVE SumInvoked(_)
SumInvoked(k) == IF k = 0 THEN 0 ELSE graph.invoked[k] + SumInvoked(k - 1)

\* tool invocations of the run of the graph so far
ToolInvocations == SumInvoked(MaxZapSteps)

C38_StoppedMonitorIdle ==
  /\ [](~monitoring_active => \A w \in Workflows : running_workflows[w] = 0)
  /\ [][~monitoring_active =>
         \A t \in TaskIds : ~PollIssued(t) /\ ~TaskCreated(t)]_vars

\* the monitor has been stopped while a polling task was asleep between two
\* polls, and the task has not gone yet
C38_Witness ==
  /\ ~monitoring_active
  /\ \E t \in TaskIds : tasks[t].pc = "sleeping" /\ tasks[t].cancel

\* C39 -- after any sequence of _log_execution calls the in-memory log holds
\* at most 1000 entries, and they are the most recently logged entries in
\* logging order.
C39_LogKeepsMostRecent ==
  /\ Len(execution_logs) <= LogCap
  /\ Len(execution_logs) = (IF log_count < LogCap THEN log_count ELSE LogCap)
  /\ \A i \in 1..Len(execution_logs) :
       execution_logs[i].n = log_count - Len(execution_logs) + i

\* a call on a full log has dropped the oldest entry
C39_Witness ==
  /\ log_count > LogCap
  /\ Len(execution_logs) = LogCap
  /\ execution_logs[LogCap].n = log_count
  /\ execution_logs[LogCap].workflow_id = "w1"
  /\ execution_logs[LogCap].user_id = "u2"

\* C40 -- get_execution_logs(workflow_id, user_id, limit) returns at most
\* limit entries, for every limit >= 0, all of them matching the given
\* workflow and user filters, and leaves the stored log unchanged.
C40_AtMostLimitMatching ==
  /\ [](returned_logs # NoReturnedLogs =>
          /\ Len(returned_logs.logs) <= returned_logs.limit
          /\ \A i \in 1..Len(returned_logs.logs) :
               /\ returned_logs.workflow_id # "none" =>
                    returned_logs.logs[i].workflow_id = returned_logs.workflow_id
               /\ returned_logs.user_id # "none" =>
                    returned_logs.logs[i].user_id = returned_logs.user_id)
  /\ [][(\E w \in Workflows \cup {"none"}, u \in LogUsers \cup {"none"},
            limit \in 0..MaxLimit : get_execution_logs(w, u, limit))
         => execution_logs' = execution_logs]_vars
====
